---- MODULE Spec2Model ----
(***************************************************************************)
(* A model of ChessBoard (src/chess.py): the 8x8 board of optional pieces, *)
(* the side to move, the en-passant target and the move log, with the      *)
(* movement rules, the attack test, move validation and move execution     *)
(* translated method by method.  An operator that models a method of       *)
(* ChessBoard takes the object as its first parameter `self`, a record of  *)
(* the four attributes; a method that assigns to the object returns the    *)
(* object after the call next to the returned value.                       *)
(***************************************************************************)
EXTENDS Integers, Sequences, FiniteSets, TLC

VARIABLES board, current_turn, en_passant_target, move_history, last, walk

vars == <<board, current_turn, en_passant_target, move_history, last, walk>>

state == <<board, current_turn, en_passant_target, move_history>>

(***************************************************************************)
(* Bounds of the exploration.                                              *)
(***************************************************************************)
\* plies played in SpecGame
MaxGamePly == 6

\* plies played in Spec, where every query is called in every position
MaxPly == 2

\* plies of a game played for castling
MaxCastlingPly == 9

\* plies of a game whose positions are asked for checkmate and stalemate
MaxTerminalPly == 4

\* plies of a game with captures and rejected calls
MaxValidationPly == 4

\* plies of a game of pawn moves
MaxPawnPly == 6

\* largest row and column passed to a rule of a sliding piece (the smallest
\* is -2)
MaxCoordinate == 10

\* SpecFrame plays at most MaxFramePly plies (nine reach White's castling
\* after an en passant capture by Black).
MaxFramePly == 9

(***************************************************************************)
(* Color, PieceType, Piece.                                                *)
(***************************************************************************)
WHITE == "white"

BLACK == "black"

Color == {WHITE, BLACK}

PAWN == "pawn"

ROOK == "rook"

KNIGHT == "knight"

BISHOP == "bishop"

QUEEN == "queen"

KING == "king"

PieceType == {PAWN, ROOK, KNIGHT, BISHOP, QUEEN, KING}

\* Python's None in a square: a record, so that it compares with a piece
None == [color |-> "none", piece_type |-> "none", has_moved |-> FALSE]

\* Piece.__init__
Piece(color, piece_type) ==
    [color |-> color, piece_type |-> piece_type, has_moved |-> FALSE]

\* Piece.__str__: the glyph of (color, piece_type), here a letter
symbols ==
    [p \in Color \X PieceType |->
        CASE p = <<WHITE, PAWN>> -> "P"
          [] p = <<WHITE, ROOK>> -> "R"
          [] p = <<WHITE, KNIGHT>> -> "N"
          [] p = <<WHITE, BISHOP>> -> "B"
          [] p = <<WHITE, QUEEN>> -> "Q"
          [] p = <<WHITE, KING>> -> "K"
          [] p = <<BLACK, PAWN>> -> "p"
          [] p = <<BLACK, ROOK>> -> "r"
          [] p = <<BLACK, KNIGHT>> -> "n"
          [] p = <<BLACK, BISHOP>> -> "b"
          [] p = <<BLACK, QUEEN>> -> "q"
          [] p = <<BLACK, KING>> -> "k"]

str(piece) ==
    IF <<piece.color, piece.piece_type>> \in DOMAIN symbols
    THEN symbols[<<piece.color, piece.piece_type>>]
    ELSE "?"

\* en_passant_target = None
NoTarget == <<>>

\* a move record's 'captured': None
NoCapture == "-"

abs(x) == IF x < 0 THEN -x ELSE x

\* a local variable of a method: v is evaluated once, and F of its value is
\* the rest of the method
Let(v, F(_)) == CHOOSE y \in {F(x) : x \in {v}} : TRUE

Opponent(color) == IF color = WHITE THEN BLACK ELSE WHITE

(***************************************************************************)
(* ChessBoard.__init__ and _setup_initial_position.                        *)
(***************************************************************************)
piece_order == <<ROOK, KNIGHT, BISHOP, QUEEN, KING, BISHOP, KNIGHT, ROOK>>

_setup_initial_position ==
    [row \in 0..7 |->
        [col \in 0..7 |->
            CASE row = 0 -> Piece(BLACK, piece_order[col + 1])
              [] row = 1 -> Piece(BLACK, PAWN)
              [] row = 6 -> Piece(WHITE, PAWN)
              [] row = 7 -> Piece(WHITE, piece_order[col + 1])
              [] OTHER -> None]]

ChessBoard ==
    [board |-> _setup_initial_position,
     current_turn |-> WHITE,
     move_history |-> <<>>,
     en_passant_target |-> NoTarget]

\* the object as the variables hold it
Self ==
    [board |-> board,
     current_turn |-> current_turn,
     move_history |-> move_history,
     en_passant_target |-> en_passant_target]

(***************************************************************************)
(* Board access.                                                           *)
(***************************************************************************)
is_valid_position(row, col) == 0 <= row /\ row < 8 /\ 0 <= col /\ col < 8

get_piece(self, row, col) ==
    IF 0 <= row /\ row < 8 /\ 0 <= col /\ col < 8
    THEN self.board[row][col]
    ELSE None

set_piece(self, row, col, piece) ==
    IF 0 <= row /\ row < 8 /\ 0 <= col /\ col < 8
    THEN [self EXCEPT !.board[row][col] = piece]
    ELSE self

\* is_empty without is_valid_position: what lies off the board is empty
is_empty_off_board(self, row, col) == get_piece(self, row, col) = None

is_empty(self, row, col) ==
    is_valid_position(row, col) /\ self.board[row][col] = None

is_occupied_by_color(self, row, col, color) ==
    LET piece == get_piece(self, row, col)
    IN  piece # None /\ piece.color = color

is_occupied_by_opponent(self, row, col, color) ==
    LET piece == get_piece(self, row, col)
    IN  piece # None /\ piece.color # color

(***************************************************************************)
(* Movement rules: no assignment to the object, so each returns a boolean. *)
(***************************************************************************)
RECURSIVE _is_path_clear_loop(_, _, _, _, _, _, _)
\* the while loop of _is_path_clear
_is_path_clear_loop(self, current_row, current_col, to_row, to_col, row_step, col_step) ==
    IF current_row # to_row \/ current_col # to_col
    THEN IF ~is_empty(self, current_row, current_col)
         THEN FALSE
         ELSE _is_path_clear_loop(self, current_row + row_step,
                                  current_col + col_step, to_row, to_col,
                                  row_step, col_step)
    ELSE TRUE

\* _is_path_clear that looks at the first square of the way only
_is_path_clear_first_step(self, from_row, from_col, to_row, to_col) ==
    LET row_step == IF to_row = from_row THEN 0
                    ELSE IF to_row > from_row THEN 1 ELSE -1
        col_step == IF to_col = from_col THEN 0
                    ELSE IF to_col > from_col THEN 1 ELSE -1
    IN  \/ <<from_row + row_step, from_col + col_step>> = <<to_row, to_col>>
        \/ is_empty(self, from_row + row_step, from_col + col_step)

_is_path_clear(self, from_row, from_col, to_row, to_col) ==
    LET row_step == IF to_row = from_row THEN 0
                    ELSE IF to_row > from_row THEN 1 ELSE -1
        col_step == IF to_col = from_col THEN 0
                    ELSE IF to_col > from_col THEN 1 ELSE -1
    IN  _is_path_clear_loop(self, from_row + row_step, from_col + col_step,
                            to_row, to_col, row_step, col_step)

\* _is_valid_pawn_move whose diagonal step does not ask for a piece of the
\* other color or the en-passant target
_is_valid_pawn_move_any_diagonal(self, from_row, from_col, to_row, to_col) ==
    LET piece == get_piece(self, from_row, from_col)
        direction == IF piece.color = WHITE THEN -1 ELSE 1
        start_row == IF piece.color = WHITE THEN 6 ELSE 1
    IN  \/ /\ from_col = to_col
           /\ is_empty(self, to_row, to_col)
           /\ \/ to_row = from_row + direction
              \/ from_row = start_row /\ to_row = from_row + 2 * direction
        \/ /\ abs(to_col - from_col) = 1
           /\ to_row = from_row + direction

_is_valid_pawn_move(self, from_row, from_col, to_row, to_col) ==
    LET piece == get_piece(self, from_row, from_col)
        direction == IF piece.color = WHITE THEN -1 ELSE 1
        start_row == IF piece.color = WHITE THEN 6 ELSE 1
        target_piece == get_piece(self, to_row, to_col)
    IN  \/ /\ from_col = to_col
           /\ is_empty(self, to_row, to_col)
           /\ \/ to_row = from_row + direction
              \/ from_row = start_row /\ to_row = from_row + 2 * direction
        \/ /\ abs(to_col - from_col) = 1
           /\ to_row = from_row + direction
           /\ \/ target_piece # None /\ target_piece.color # piece.color
              \/ <<to_row, to_col>> = self.en_passant_target

_is_valid_rook_move(self, from_row, from_col, to_row, to_col) ==
    IF from_row # to_row /\ from_col # to_col
    THEN FALSE
    ELSE _is_path_clear(self, from_row, from_col, to_row, to_col)

_is_valid_knight_move(self, from_row, from_col, to_row, to_col) ==
    LET row_diff == abs(to_row - from_row)
        col_diff == abs(to_col - from_col)
    IN  (row_diff = 2 /\ col_diff = 1) \/ (row_diff = 1 /\ col_diff = 2)

_is_valid_bishop_move(self, from_row, from_col, to_row, to_col) ==
    IF abs(to_row - from_row) # abs(to_col - from_col)
    THEN FALSE
    ELSE _is_path_clear(self, from_row, from_col, to_row, to_col)

_is_valid_queen_move(self, from_row, from_col, to_row, to_col) ==
    \/ _is_valid_rook_move(self, from_row, from_col, to_row, to_col)
    \/ _is_valid_bishop_move(self, from_row, from_col, to_row, to_col)

_is_valid_castling(self, from_row, from_col, to_row, to_col) ==
    LET piece == get_piece(self, from_row, from_col)
        rook_k == get_piece(self, from_row, 7)
        rook_q == get_piece(self, from_row, 0)
    IN  IF piece = None \/ piece.piece_type # KING \/ piece.has_moved
        THEN FALSE
        ELSE IF piece.color = WHITE /\ from_row # 7
        THEN FALSE
        ELSE IF piece.color = BLACK /\ from_row # 0
        THEN FALSE
        ELSE \/ /\ to_col = from_col + 2
                /\ rook_k # None
                /\ rook_k.piece_type = ROOK
                /\ ~rook_k.has_moved
                /\ is_empty(self, from_row, from_col + 1)
                /\ is_empty(self, from_row, from_col + 2)
             \/ /\ to_col = from_col - 2
                /\ rook_q # None
                /\ rook_q.piece_type = ROOK
                /\ ~rook_q.has_moved
                /\ is_empty(self, from_row, from_col - 1)
                /\ is_empty(self, from_row, from_col - 2)
                /\ is_empty(self, from_row, from_col - 3)

_is_valid_king_move(self, from_row, from_col, to_row, to_col) ==
    LET row_diff == abs(to_row - from_row)
        col_diff == abs(to_col - from_col)
    IN  IF row_diff <= 1 /\ col_diff <= 1
        THEN TRUE
        ELSE _is_valid_castling(self, from_row, from_col, to_row, to_col)

_is_valid_move_internal(self, from_row, from_col, to_row, to_col) ==
    LET piece == get_piece(self, from_row, from_col)
        target_piece == get_piece(self, to_row, to_col)
    IN  IF piece = None
        THEN FALSE
        ELSE IF from_row = to_row /\ from_col = to_col
        THEN FALSE
        ELSE IF target_piece # None /\ target_piece.color = piece.color
        THEN FALSE
        ELSE CASE piece.piece_type = PAWN ->
                    _is_valid_pawn_move(self, from_row, from_col, to_row, to_col)
               [] piece.piece_type = ROOK ->
                    _is_valid_rook_move(self, from_row, from_col, to_row, to_col)
               [] piece.piece_type = KNIGHT ->
                    _is_valid_knight_move(self, from_row, from_col, to_row, to_col)
               [] piece.piece_type = BISHOP ->
                    _is_valid_bishop_move(self, from_row, from_col, to_row, to_col)
               [] piece.piece_type = QUEEN ->
                    _is_valid_queen_move(self, from_row, from_col, to_row, to_col)
               [] piece.piece_type = KING ->
                    _is_valid_king_move(self, from_row, from_col, to_row, to_col)
               [] OTHER -> FALSE

(***************************************************************************)
(* The attack test.  can_attack_square assigns to self.board, so it and    *)
(* its callers return [ret, self]: the value and the object afterwards.    *)
(***************************************************************************)
\* get_king_position raises ValueError
NoKing == <<>>

\* the squares of the board in the order of `for row in range(8): for col in
\* range(8):`, numbered 0..63
Square(i) == <<i \div 8, i % 8>>

get_king_position(self, color) ==
    LET found == {i \in 0..63 :
                    LET piece == get_piece(self, Square(i)[1], Square(i)[2])
                    IN  /\ piece # None
                        /\ piece.piece_type = KING
                        /\ piece.color = color}
    IN  IF found = {}
        THEN NoKing
        ELSE Square(CHOOSE i \in found : \A j \in found : i <= j)

\* can_attack_square without `self.board[from_row][from_col] = original_piece`
can_attack_square_not_restored(self, from_row, from_col, to_row, to_col) ==
    LET piece == get_piece(self, from_row, from_col)
    IN  IF piece = None
        THEN [ret |-> FALSE, self |-> self]
        ELSE LET removed == [self EXCEPT !.board[from_row][from_col] = None]
                 can_attack == _is_valid_move_internal(removed, from_row,
                                                       from_col, to_row, to_col)
             IN  [ret |-> can_attack, self |-> removed]

can_attack_square(self, from_row, from_col, to_row, to_col) ==
    LET piece == get_piece(self, from_row, from_col)
    IN  IF piece = None
        THEN [ret |-> FALSE, self |-> self]
        ELSE LET original_piece == self.board[from_row][from_col]
                 removed == [self EXCEPT !.board[from_row][from_col] = None]
                 can_attack == _is_valid_move_internal(removed, from_row,
                                                       from_col, to_row, to_col)
                 restored == [removed EXCEPT
                                !.board[from_row][from_col] = original_piece]
             IN  [ret |-> can_attack, self |-> restored]

RECURSIVE _is_square_attacked_loop(_, _, _, _, _, _)
\* the two nested loops of is_square_attacked over the squares lo..hi-1, run
\* as two halves one after the other (which keeps the evaluation shallow);
\* ret: `return True` was reached
_is_square_attacked_loop(self, lo, hi, row, col, by_color) ==
    IF hi = lo + 1
    THEN LET r == Square(lo)[1]
             c == Square(lo)[2]
             piece == get_piece(self, r, c)
         IN  IF piece # None /\ piece.color = by_color
             THEN can_attack_square(self, r, c, row, col)
             ELSE [ret |-> FALSE, self |-> self]
    ELSE Let(_is_square_attacked_loop(self, lo, (lo + hi) \div 2, row, col,
                                      by_color), LAMBDA half :
         IF half.ret
         THEN half
         ELSE _is_square_attacked_loop(half.self, (lo + hi) \div 2, hi, row,
                                       col, by_color))

is_square_attacked(self, row, col, by_color) ==
    _is_square_attacked_loop(self, 0, 64, row, col, by_color)

is_in_check(self, color) ==
    LET king == get_king_position(self, color)
    IN  IF king = NoKing
        THEN [ret |-> FALSE, self |-> self]
        ELSE is_square_attacked(self, king[1], king[2], color)

(***************************************************************************)
(* Move execution and validation.                                          *)
(***************************************************************************)
\* _make_move_internal without `else: self.en_passant_target = None`
_make_move_internal_target_kept(self, from_row, from_col, to_row, to_col) ==
    Let(get_piece(self, from_row, from_col), LAMBDA found :
    \* piece.has_moved = True, seen through the square that holds the piece
    Let(IF found # None THEN [found EXCEPT !.has_moved = TRUE] ELSE found,
        LAMBDA piece :
    Let(IF found # None
        THEN [self EXCEPT !.board[from_row][from_col] = piece]
        ELSE self, LAMBDA marked :
    \* en passant capture
    Let(IF /\ piece # None
           /\ piece.piece_type = PAWN
           /\ <<to_row, to_col>> = marked.en_passant_target
        THEN set_piece(marked,
                       to_row + (IF piece.color = WHITE THEN 1 ELSE -1),
                       to_col, None)
        ELSE marked, LAMBDA after_en_passant :
    \* castling: the rook of the corner goes to column 5 or 3
    Let(IF /\ piece # None
           /\ piece.piece_type = KING
           /\ abs(to_col - from_col) = 2
        THEN IF to_col > from_col
             THEN Let(set_piece(after_en_passant, from_row, 5,
                                get_piece(after_en_passant, from_row, 7)),
                      LAMBDA rook_set : set_piece(rook_set, from_row, 7, None))
             ELSE Let(set_piece(after_en_passant, from_row, 3,
                                get_piece(after_en_passant, from_row, 0)),
                      LAMBDA rook_set : set_piece(rook_set, from_row, 0, None))
        ELSE after_en_passant, LAMBDA after_castling :
    \* move the piece
    Let(set_piece(after_castling, to_row, to_col, piece), LAMBDA placed :
    Let(set_piece(placed, from_row, from_col, None), LAMBDA vacated :
    \* en passant target for the next move
    [vacated EXCEPT !.en_passant_target =
        IF /\ piece # None
           /\ piece.piece_type = PAWN
           /\ abs(to_row - from_row) = 2
        THEN <<(to_row + from_row) \div 2, to_col>>
        ELSE @])))))))

\* _make_move_internal without `piece.has_moved = True`
_make_move_internal_flag_not_set(self, from_row, from_col, to_row, to_col) ==
    Let(get_piece(self, from_row, from_col), LAMBDA found :
    Let(found, LAMBDA piece :
    Let(IF found # None
        THEN [self EXCEPT !.board[from_row][from_col] = piece]
        ELSE self, LAMBDA marked :
    \* en passant capture
    Let(IF /\ piece # None
           /\ piece.piece_type = PAWN
           /\ <<to_row, to_col>> = marked.en_passant_target
        THEN set_piece(marked,
                       to_row + (IF piece.color = WHITE THEN 1 ELSE -1),
                       to_col, None)
        ELSE marked, LAMBDA after_en_passant :
    \* castling: the rook of the corner goes to column 5 or 3
    Let(IF /\ piece # None
           /\ piece.piece_type = KING
           /\ abs(to_col - from_col) = 2
        THEN IF to_col > from_col
             THEN Let(set_piece(after_en_passant, from_row, 5,
                                get_piece(after_en_passant, from_row, 7)),
                      LAMBDA rook_set : set_piece(rook_set, from_row, 7, None))
             ELSE Let(set_piece(after_en_passant, from_row, 3,
                                get_piece(after_en_passant, from_row, 0)),
                      LAMBDA rook_set : set_piece(rook_set, from_row, 0, None))
        ELSE after_en_passant, LAMBDA after_castling :
    \* move the piece
    Let(set_piece(after_castling, to_row, to_col, piece), LAMBDA placed :
    Let(set_piece(placed, from_row, from_col, None), LAMBDA vacated :
    \* en passant target for the next move
    [vacated EXCEPT !.en_passant_target =
        IF /\ piece # None
           /\ piece.piece_type = PAWN
           /\ abs(to_row - from_row) = 2
        THEN <<(to_row + from_row) \div 2, to_col>>
        ELSE NoTarget])))))))

\* _make_move_internal with `to_col < from_col` for the kingside of castling
_make_move_internal_sides_swapped(self, from_row, from_col, to_row, to_col) ==
    Let(get_piece(self, from_row, from_col), LAMBDA found :
    \* piece.has_moved = True, seen through the square that holds the piece
    Let(IF found # None THEN [found EXCEPT !.has_moved = TRUE] ELSE found,
        LAMBDA piece :
    Let(IF found # None
        THEN [self EXCEPT !.board[from_row][from_col] = piece]
        ELSE self, LAMBDA marked :
    \* en passant capture
    Let(IF /\ piece # None
           /\ piece.piece_type = PAWN
           /\ <<to_row, to_col>> = marked.en_passant_target
        THEN set_piece(marked,
                       to_row + (IF piece.color = WHITE THEN 1 ELSE -1),
                       to_col, None)
        ELSE marked, LAMBDA after_en_passant :
    \* castling: the rook of the corner goes to column 5 or 3
    Let(IF /\ piece # None
           /\ piece.piece_type = KING
           /\ abs(to_col - from_col) = 2
        THEN IF to_col < from_col
             THEN Let(set_piece(after_en_passant, from_row, 5,
                                get_piece(after_en_passant, from_row, 7)),
                      LAMBDA rook_set : set_piece(rook_set, from_row, 7, None))
             ELSE Let(set_piece(after_en_passant, from_row, 3,
                                get_piece(after_en_passant, from_row, 0)),
                      LAMBDA rook_set : set_piece(rook_set, from_row, 0, None))
        ELSE after_en_passant, LAMBDA after_castling :
    \* move the piece
    Let(set_piece(after_castling, to_row, to_col, piece), LAMBDA placed :
    Let(set_piece(placed, from_row, from_col, None), LAMBDA vacated :
    \* en passant target for the next move
    [vacated EXCEPT !.en_passant_target =
        IF /\ piece # None
           /\ piece.piece_type = PAWN
           /\ abs(to_row - from_row) = 2
        THEN <<(to_row + from_row) \div 2, to_col>>
        ELSE NoTarget])))))))

\* returns the object after the call (the method returns nothing)
_make_move_internal(self, from_row, from_col, to_row, to_col) ==
    Let(get_piece(self, from_row, from_col), LAMBDA found :
    \* piece.has_moved = True, seen through the square that holds the piece
    Let(IF found # None THEN [found EXCEPT !.has_moved = TRUE] ELSE found,
        LAMBDA piece :
    Let(IF found # None
        THEN [self EXCEPT !.board[from_row][from_col] = piece]
        ELSE self, LAMBDA marked :
    \* en passant capture
    Let(IF /\ piece # None
           /\ piece.piece_type = PAWN
           /\ <<to_row, to_col>> = marked.en_passant_target
        THEN set_piece(marked,
                       to_row + (IF piece.color = WHITE THEN 1 ELSE -1),
                       to_col, None)
        ELSE marked, LAMBDA after_en_passant :
    \* castling: the rook of the corner goes to column 5 or 3
    Let(IF /\ piece # None
           /\ piece.piece_type = KING
           /\ abs(to_col - from_col) = 2
        THEN IF to_col > from_col
             THEN Let(set_piece(after_en_passant, from_row, 5,
                                get_piece(after_en_passant, from_row, 7)),
                      LAMBDA rook_set : set_piece(rook_set, from_row, 7, None))
             ELSE Let(set_piece(after_en_passant, from_row, 3,
                                get_piece(after_en_passant, from_row, 0)),
                      LAMBDA rook_set : set_piece(rook_set, from_row, 0, None))
        ELSE after_en_passant, LAMBDA after_castling :
    \* move the piece
    Let(set_piece(after_castling, to_row, to_col, piece), LAMBDA placed :
    Let(set_piece(placed, from_row, from_col, None), LAMBDA vacated :
    \* en passant target for the next move
    [vacated EXCEPT !.en_passant_target =
        IF /\ piece # None
           /\ piece.piece_type = PAWN
           /\ abs(to_row - from_row) = 2
        THEN <<(to_row + from_row) \div 2, to_col>>
        ELSE NoTarget])))))))

\* copy.deepcopy(self): an equal object that shares nothing with self
deepcopy(self) == self

\* is_valid_move without `piece.color != self.current_turn`
is_valid_move_any_turn(self, from_row, from_col, to_row, to_col) ==
    LET piece == get_piece(self, from_row, from_col)
    IN  IF piece = None
        THEN [ret |-> FALSE, self |-> self]
        ELSE IF ~_is_valid_move_internal(self, from_row, from_col, to_row, to_col)
        THEN [ret |-> FALSE, self |-> self]
        ELSE Let(deepcopy(self), LAMBDA copied :
             Let(_make_move_internal(copied, from_row, from_col, to_row, to_col),
                 LAMBDA temp_board :
             Let(is_in_check(temp_board, self.current_turn), LAMBDA check :
             [ret |-> ~check.ret, self |-> self])))

is_valid_move(self, from_row, from_col, to_row, to_col) ==
    LET piece == get_piece(self, from_row, from_col)
    IN  IF piece = None \/ piece.color # self.current_turn
        THEN [ret |-> FALSE, self |-> self]
        ELSE IF ~_is_valid_move_internal(self, from_row, from_col, to_row, to_col)
        THEN [ret |-> FALSE, self |-> self]
        ELSE Let(deepcopy(self), LAMBDA copied :
             Let(_make_move_internal(copied, from_row, from_col, to_row, to_col),
                 LAMBDA temp_board :
             Let(is_in_check(temp_board, self.current_turn), LAMBDA check :
             [ret |-> ~check.ret, self |-> self])))

\* make_move that moves the piece before it looks at the result of is_valid_move
make_move_before_validation(self, from_row, from_col, to_row, to_col) ==
    Let(is_valid_move(self, from_row, from_col, to_row, to_col), LAMBDA valid :
    Let(_make_move_internal(valid.self, from_row, from_col, to_row, to_col),
        LAMBDA moved :
    IF ~valid.ret
    THEN [ret |-> FALSE, self |-> moved]
    ELSE Let([from |-> <<from_row, from_col>>,
              to |-> <<to_row, to_col>>,
              piece |-> str(get_piece(valid.self, from_row, from_col)),
              captured |-> IF get_piece(valid.self, to_row, to_col) # None
                           THEN str(get_piece(valid.self, to_row, to_col))
                           ELSE NoCapture], LAMBDA move_record :
         [ret |-> TRUE,
          self |-> [moved EXCEPT
                        !.move_history = Append(@, move_record),
                        !.current_turn = IF @ = WHITE THEN BLACK ELSE WHITE]])))

\* make_move without `self.current_turn = ...`
make_move_same_turn(self, from_row, from_col, to_row, to_col) ==
    Let(is_valid_move(self, from_row, from_col, to_row, to_col), LAMBDA valid :
    IF ~valid.ret
    THEN [ret |-> FALSE, self |-> valid.self]
    ELSE Let([from |-> <<from_row, from_col>>,
              to |-> <<to_row, to_col>>,
              piece |-> str(get_piece(valid.self, from_row, from_col)),
              captured |-> IF get_piece(valid.self, to_row, to_col) # None
                           THEN str(get_piece(valid.self, to_row, to_col))
                           ELSE NoCapture], LAMBDA move_record :
         Let(_make_move_internal(valid.self, from_row, from_col, to_row, to_col),
             LAMBDA moved :
         [ret |-> TRUE,
          self |-> [moved EXCEPT !.move_history = Append(@, move_record)]])))

make_move(self, from_row, from_col, to_row, to_col) ==
    Let(is_valid_move(self, from_row, from_col, to_row, to_col), LAMBDA valid :
    IF ~valid.ret
    THEN [ret |-> FALSE, self |-> valid.self]
    ELSE Let(valid.self, LAMBDA checked :
         Let([from |-> <<from_row, from_col>>,
              to |-> <<to_row, to_col>>,
              piece |-> str(get_piece(checked, from_row, from_col)),
              captured |-> IF get_piece(checked, to_row, to_col) # None
                           THEN str(get_piece(checked, to_row, to_col))
                           ELSE NoCapture], LAMBDA move_record :
         Let(_make_move_internal(checked, from_row, from_col, to_row, to_col),
             LAMBDA moved :
         Let([moved EXCEPT !.move_history = Append(@, move_record)],
             LAMBDA logged :
         [ret |-> TRUE,
          self |-> [logged EXCEPT !.current_turn =
                        IF @ = WHITE THEN BLACK ELSE WHITE]])))))

(***************************************************************************)
(* Terminal states and move enumeration.                                   *)
(***************************************************************************)
RECURSIVE _any_valid_to(_, _, _, _, _)
\* `for to_row ...: for to_col ...: if self.is_valid_move(...): return False`
\* over the destinations lo..hi-1, as two halves; ret: the return was reached
_any_valid_to(self, from_row, from_col, lo, hi) ==
    IF hi = lo + 1
    THEN is_valid_move(self, from_row, from_col, Square(lo)[1], Square(lo)[2])
    ELSE Let(_any_valid_to(self, from_row, from_col, lo, (lo + hi) \div 2),
             LAMBDA half :
         IF half.ret
         THEN half
         ELSE _any_valid_to(half.self, from_row, from_col, (lo + hi) \div 2, hi))

RECURSIVE _any_valid_from(_, _, _, _)
\* `for from_row ...: for from_col ...: if piece and piece.color == color:`
\* around it, over the origins lo..hi-1, as two halves
_any_valid_from(self, color, lo, hi) ==
    IF hi = lo + 1
    THEN LET piece == get_piece(self, Square(lo)[1], Square(lo)[2])
         IN  IF piece # None /\ piece.color = color
             THEN _any_valid_to(self, Square(lo)[1], Square(lo)[2], 0, 64)
             ELSE [ret |-> FALSE, self |-> self]
    ELSE Let(_any_valid_from(self, color, lo, (lo + hi) \div 2), LAMBDA half :
         IF half.ret
         THEN half
         ELSE _any_valid_from(half.self, color, (lo + hi) \div 2, hi))

is_checkmate(self, color) ==
    Let(is_in_check(self, color), LAMBDA check :
    IF ~check.ret
    THEN [ret |-> FALSE, self |-> check.self]
    ELSE Let(_any_valid_from(check.self, color, 0, 64), LAMBDA search :
         [ret |-> ~search.ret, self |-> search.self]))

\* is_stalemate whose search ends after the rows 0..3 of from_row
is_stalemate_half_search(self, color) ==
    Let(is_in_check(self, color), LAMBDA check :
    IF check.ret
    THEN [ret |-> FALSE, self |-> check.self]
    ELSE Let(_any_valid_from(check.self, color, 0, 32), LAMBDA search :
         [ret |-> ~search.ret, self |-> search.self]))

is_stalemate(self, color) ==
    Let(is_in_check(self, color), LAMBDA check :
    IF check.ret
    THEN [ret |-> FALSE, self |-> check.self]
    ELSE Let(_any_valid_from(check.self, color, 0, 64), LAMBDA search :
         [ret |-> ~search.ret, self |-> search.self]))

RECURSIVE _all_valid_to_reversed(_, _, _, _, _, _)
\* the loops of get_all_valid_moves over the destinations, the later ones
\* first
_all_valid_to_reversed(self, from_row, from_col, lo, hi, moves) ==
    IF hi = lo + 1
    THEN Let(is_valid_move(self, from_row, from_col, Square(lo)[1],
                           Square(lo)[2]), LAMBDA valid :
         [ret |-> IF valid.ret
                  THEN Append(moves, <<from_row, from_col, Square(lo)[1],
                                       Square(lo)[2]>>)
                  ELSE moves,
          self |-> valid.self])
    ELSE Let(_all_valid_to_reversed(self, from_row, from_col,
                                    (lo + hi) \div 2, hi, moves),
             LAMBDA half :
         _all_valid_to_reversed(half.self, from_row, from_col, lo,
                                (lo + hi) \div 2, half.ret))

RECURSIVE _all_valid_to(_, _, _, _, _, _)
\* the loops of get_all_valid_moves over the destinations lo..hi-1, as two
\* halves; ret: the list `moves`
_all_valid_to(self, from_row, from_col, lo, hi, moves) ==
    IF hi = lo + 1
    THEN Let(is_valid_move(self, from_row, from_col, Square(lo)[1],
                           Square(lo)[2]), LAMBDA valid :
         [ret |-> IF valid.ret
                  THEN Append(moves, <<from_row, from_col, Square(lo)[1],
                                       Square(lo)[2]>>)
                  ELSE moves,
          self |-> valid.self])
    ELSE Let(_all_valid_to(self, from_row, from_col, lo, (lo + hi) \div 2, moves),
             LAMBDA half :
         _all_valid_to(half.self, from_row, from_col, (lo + hi) \div 2, hi,
                       half.ret))

RECURSIVE _all_valid_from(_, _, _, _, _)
\* the loops of get_all_valid_moves over the origins lo..hi-1, as two halves
_all_valid_from(self, color, lo, hi, moves) ==
    IF hi = lo + 1
    THEN LET piece == get_piece(self, Square(lo)[1], Square(lo)[2])
         IN  IF piece # None /\ piece.color = color
             THEN _all_valid_to(self, Square(lo)[1], Square(lo)[2], 0, 64, moves)
             ELSE [ret |-> moves, self |-> self]
    ELSE Let(_all_valid_from(self, color, lo, (lo + hi) \div 2, moves),
             LAMBDA half :
         _all_valid_from(half.self, color, (lo + hi) \div 2, hi, half.ret))

get_all_valid_moves(self, color) == _all_valid_from(self, color, 0, 64, <<>>)

(***************************************************************************)
(* The inputs of the calls.                                                *)
(***************************************************************************)
\* (from_row, from_col, to_row, to_col) of the calls of make_move and
\* is_valid_move: pawn, knight, rook, queen and king moves of both colors,
\* on and off the board
WhiteMoveInputs ==
    {<<6, 5, 5, 5>>, <<6, 5, 4, 5>>, <<6, 6, 4, 6>>, <<7, 6, 5, 5>>,
     <<7, 1, 9, 0>>, <<7, 0, 8, 0>>, <<7, 0, 9, 0>>, <<8, 0, 7, 0>>,
     <<7, 4, 6, 5>>}

BlackMoveInputs ==
    {<<1, 4, 3, 4>>, <<3, 4, 4, 4>>, <<4, 4, 5, 5>>, <<0, 3, 4, 7>>,
     <<4, 7, 7, 4>>, <<0, 1, -2, 0>>, <<0, 0, 0, -1>>, <<0, -1, 0, 0>>}

MoveInputs == WhiteMoveInputs \union BlackMoveInputs

\* (row, col) of the calls of is_square_attacked
SquareInputs == {<<7, 4>>, <<4, 7>>, <<5, 5>>, <<8, 8>>}

\* (row, col, piece) of the calls of set_piece: the fixture of
\* test_check_detection, which clears the e-file and places a White King on
\* (4, 4) and a Black Queen on (4, 0)
PlacementInputs ==
    {<<r, 4, None>> : r \in 0..7}
        \union {<<4, 4, Piece(WHITE, KING)>>, <<4, 0, Piece(BLACK, QUEEN)>>}

InRange(m) == \A k \in 1..4 : m[k] \in 0..7

(***************************************************************************)
(* The state machine: one action per public method of ChessBoard.  `last`  *)
(* records the latest call: the method, what it returned (`moves` for the  *)
(* list of get_all_valid_moves) and whether its coordinates were all       *)
(* within 0..7.                                                            *)
(***************************************************************************)
Call(op, ret, in_range, moves) ==
    [op |-> op, ret |-> ret, in_range |-> in_range, moves |-> moves]

\* `walk` is the frame of the latest call of a rule of a sliding piece, with
\* the local variables of _is_path_clear when the rule has called it: pc is
\* "loop" at the head of the while loop and "returned" after the return of
\* the rule; kind is the piece's rule that was called and rule the one that
\* runs (a queen's rule calls the rook's, then the bishop's); steps counts
\* the executions of the loop body's last two lines
NoWalk ==
    [pc |-> "idle", kind |-> "none", rule |-> "none", ret |-> FALSE,
     from_row |-> 0, from_col |-> 0, to_row |-> 0, to_col |-> 0,
     row_step |-> 0, col_step |-> 0, current_row |-> 0, current_col |-> 0,
     steps |-> 0]

Init ==
    /\ board = ChessBoard.board
    /\ current_turn = ChessBoard.current_turn
    /\ en_passant_target = ChessBoard.en_passant_target
    /\ move_history = ChessBoard.move_history
    /\ last = Call("__init__", TRUE, TRUE, <<>>)
    /\ walk = NoWalk

\* the object after a call becomes the state
Becomes(self) ==
    /\ board' = self.board
    /\ current_turn' = self.current_turn
    /\ en_passant_target' = self.en_passant_target
    /\ move_history' = self.move_history
    /\ UNCHANGED walk

MakeMove(m) ==
    \E res \in {make_move(Self, m[1], m[2], m[3], m[4])} :
        /\ Becomes(res.self)
        /\ last' = Call("make_move", res.ret, InRange(m), <<>>)

IsValidMove(m) ==
    \E res \in {is_valid_move(Self, m[1], m[2], m[3], m[4])} :
        /\ Becomes(res.self)
        /\ last' = Call("is_valid_move", res.ret, InRange(m), <<>>)

IsInCheck(color) ==
    \E res \in {is_in_check(Self, color)} :
        /\ Becomes(res.self)
        /\ last' = Call("is_in_check", res.ret, TRUE, <<>>)

IsSquareAttacked(sq, by_color) ==
    \E res \in {is_square_attacked(Self, sq[1], sq[2], by_color)} :
        /\ Becomes(res.self)
        /\ last' = Call("is_square_attacked", res.ret,
                        is_valid_position(sq[1], sq[2]), <<>>)

IsCheckmate(color) ==
    \E res \in {is_checkmate(Self, color)} :
        /\ Becomes(res.self)
        /\ last' = Call("is_checkmate", res.ret, TRUE, <<>>)

IsStalemate(color) ==
    \E res \in {is_stalemate(Self, color)} :
        /\ Becomes(res.self)
        /\ last' = Call("is_stalemate", res.ret, TRUE, <<>>)

GetAllValidMoves(color) ==
    \E res \in {get_all_valid_moves(Self, color)} :
        /\ Becomes(res.self)
        /\ last' = Call("get_all_valid_moves", TRUE, TRUE, res.ret)

\* set_piece returns nothing: ret is TRUE
SetPiece(row, col, piece) ==
    /\ Becomes(set_piece(Self, row, col, piece))
    /\ last' = Call("set_piece", TRUE, is_valid_position(row, col), <<>>)

\* every method, in the positions of the first MaxPly plies
Next ==
    \/ \E m \in MoveInputs : Len(move_history) < MaxPly /\ MakeMove(m)
    \/ \E m \in MoveInputs : IsValidMove(m)
    \/ \E color \in Color : IsInCheck(color)
    \/ \E sq \in SquareInputs, color \in Color : IsSquareAttacked(sq, color)
    \/ \E color \in Color : IsCheckmate(color)
    \/ \E color \in Color : IsStalemate(color)
    \/ \E color \in Color : GetAllValidMoves(color)

Spec == Init /\ [][Next]_vars

\* the game: make_move alone, MaxGamePly plies deep
NextGame == \E m \in MoveInputs : Len(move_history) < MaxGamePly /\ MakeMove(m)

SpecGame == Init /\ [][NextGame]_vars

\* a test fixture: the board is built with set_piece and asked for check
NextFixture ==
    \/ \E p \in PlacementInputs : SetPiece(p[1], p[2], p[3])
    \/ \E color \in Color : IsInCheck(color)

SpecFixture == Init /\ [][NextFixture]_vars

\* (row, col, piece) of set_piece calls that prepare White's back rank for
\* castling: squares between King and Rooks cleared, a Black Rook put on the
\* kingside corner, the King put on the d-file
CastlingPlacementInputs ==
    {<<7, c, None>> : c \in {1, 2, 3, 4, 5, 6}}
        \union {<<7, 7, Piece(BLACK, ROOK)>>, <<7, 3, Piece(WHITE, KING)>>}

\* King moves of two columns from the e-file and from the d-file
CastlingMoveInputs ==
    {<<7, 4, 7, 6>>, <<7, 4, 7, 2>>, <<7, 3, 7, 5>>, <<7, 3, 7, 1>>}

\* a board built with set_piece and asked for King moves of two columns
NextCastlingFixture ==
    \/ \E p \in CastlingPlacementInputs : SetPiece(p[1], p[2], p[3])
    \/ \E m \in CastlingMoveInputs : IsValidMove(m)

SpecCastlingFixture == Init /\ [][NextCastlingFixture]_vars

\* moves of a game in which White prepares to castle kingside, moves the
\* King or the Rook away and back, and Black takes the Rook of (7, 7) with
\* the Bishop of the long diagonal
CastlingWhiteInputs ==
    {<<6, 4, 5, 4>>, <<7, 5, 6, 4>>, <<7, 6, 5, 7>>, <<6, 6, 4, 6>>,
     <<7, 4, 7, 6>>, <<7, 4, 5, 6>>, <<7, 4, 7, 5>>, <<7, 5, 7, 4>>,
     <<7, 7, 7, 6>>, <<7, 6, 7, 7>>}

CastlingBlackInputs ==
    {<<0, 1, 2, 0>>, <<2, 0, 0, 1>>, <<1, 1, 2, 1>>, <<0, 2, 1, 1>>,
     <<1, 1, 7, 7>>}

CastlingGameInputs == CastlingWhiteInputs \union CastlingBlackInputs

NextCastling ==
    \E m \in CastlingGameInputs :
        Len(move_history) < MaxCastlingPly /\ MakeMove(m)

SpecCastling == Init /\ [][NextCastling]_vars

\* moves toward the fool's mate, with one other reply of Black and the
\* King's step onto the vacated (6, 5)
TerminalMoveInputs ==
    {<<6, 5, 5, 5>>, <<6, 6, 4, 6>>, <<7, 4, 6, 5>>,
     <<1, 4, 3, 4>>, <<0, 3, 4, 7>>, <<0, 1, 2, 2>>}

\* the positions of a short game, each asked for check, checkmate, stalemate
\* and its moves, for the color on turn and the other one
NextTerminal ==
    \/ \E m \in TerminalMoveInputs :
          Len(move_history) < MaxTerminalPly /\ MakeMove(m)
    \/ \E color \in Color : IsInCheck(color)
    \/ \E color \in Color : IsCheckmate(color)
    \/ \E color \in Color : IsStalemate(color)
    \/ \E color \in Color : GetAllValidMoves(color)

SpecTerminal == Init /\ [][NextTerminal]_vars

\* the calls of test_pawn_moves, test_knight_moves and test_move_validation
\* (a pawn's double step and its way back, a knight move, the other side's
\* rook, a move onto its own square, the capture of an own piece), with
\* replies of Black and captures
ValidationMoveInputs ==
    {<<6, 4, 4, 4>>, <<4, 4, 6, 4>>, <<7, 1, 5, 2>>, <<4, 4, 3, 3>>,
     <<0, 0, 1, 0>>, <<7, 0, 7, 0>>, <<7, 0, 7, 1>>,
     <<7, 6, 5, 5>>, <<1, 3, 3, 3>>, <<0, 3, 3, 3>>, <<0, 1, 2, 2>>,
     <<3, 3, 4, 4>>, <<1, 4, 3, 4>>}

NextValidation ==
    \/ \E m \in ValidationMoveInputs :
          Len(move_history) < MaxValidationPly /\ MakeMove(m)
    \/ \E m \in ValidationMoveInputs : IsValidMove(m)

SpecValidation == Init /\ [][NextValidation]_vars

\* pawn moves of a game: single and double steps, captures on the diagonal
\* and en passant to either side, with a knight move and a single step of
\* White to pass the turn
PawnMoveInputs ==
    {<<6, 5, 4, 5>>, <<6, 3, 4, 3>>, <<6, 6, 5, 6>>, <<7, 1, 5, 2>>,
     <<4, 5, 3, 4>>,
     <<1, 4, 3, 4>>, <<3, 4, 4, 4>>, <<4, 4, 5, 5>>, <<4, 4, 5, 3>>,
     <<1, 3, 3, 3>>, <<3, 4, 4, 5>>}

NextPawn ==
    \E m \in PawnMoveInputs : Len(move_history) < MaxPawnPly /\ MakeMove(m)

SpecPawn == Init /\ [][NextPawn]_vars

\* moves of a game with every side effect of _make_move_internal: White
\* prepares kingside castling and steps a pawn two rows past Black's pawn,
\* Black takes it en passant, White takes back, castles, or moves a Rook
\* off the board
FrameWhiteInputs ==
    {<<6, 4, 5, 4>>, <<7, 5, 6, 4>>, <<7, 6, 5, 7>>, <<6, 5, 4, 5>>,
     <<7, 4, 7, 6>>, <<6, 6, 5, 5>>, <<7, 0, 8, 0>>}

FrameBlackInputs ==
    {<<1, 4, 3, 4>>, <<3, 4, 4, 4>>, <<4, 4, 5, 5>>, <<0, 1, 2, 0>>,
     <<2, 0, 0, 1>>}

FrameMoveInputs == FrameWhiteInputs \union FrameBlackInputs

NextFrame ==
    \E m \in FrameMoveInputs : Len(move_history) < MaxFramePly /\ MakeMove(m)

SpecFrame == Init /\ [][NextFrame]_vars

(***************************************************************************)
(* The rules of the sliding pieces and _is_path_clear, one execution of    *)
(* the loop at a time.                                                     *)
(***************************************************************************)
\* the squares passed to the rules: on the board and up to two off it
WalkFromInputs ==
    {<<4, 0>>, <<2, 2>>, <<7, 0>>, <<5, 7>>, <<4, -1>>, <<-1, -1>>, <<2, -2>>}

WalkToInputs == (-2..MaxCoordinate) \X (-2..MaxCoordinate)

\* the frame at the head of the loop, after the assignments of
\* _is_path_clear that precede it
EnterPathClear(kind, rule, from, to) ==
    LET row_step == IF to[1] = from[1] THEN 0
                    ELSE IF to[1] > from[1] THEN 1 ELSE -1
        col_step == IF to[2] = from[2] THEN 0
                    ELSE IF to[2] > from[2] THEN 1 ELSE -1
    IN  [pc |-> "loop", kind |-> kind, rule |-> rule, ret |-> FALSE,
         from_row |-> from[1], from_col |-> from[2],
         to_row |-> to[1], to_col |-> to[2],
         row_step |-> row_step, col_step |-> col_step,
         current_row |-> from[1] + row_step,
         current_col |-> from[2] + col_step,
         steps |-> 0]

\* the frame after `return ret` of the rule
Return(kind, rule, from, to, ret) ==
    [NoWalk EXCEPT !.pc = "returned", !.kind = kind, !.rule = rule,
                   !.ret = ret,
                   !.from_row = from[1], !.from_col = from[2],
                   !.to_row = to[1], !.to_col = to[2]]

\* _is_valid_rook_move up to the head of the loop or its return
EnterRookMove(kind, from, to) ==
    IF from[1] # to[1] /\ from[2] # to[2]
    THEN Return(kind, ROOK, from, to, FALSE)
    ELSE EnterPathClear(kind, ROOK, from, to)

\* _is_valid_bishop_move up to the head of the loop or its return
EnterBishopMove(kind, from, to) ==
    IF abs(to[1] - from[1]) # abs(to[2] - from[2])
    THEN Return(kind, BISHOP, from, to, FALSE)
    ELSE EnterPathClear(kind, BISHOP, from, to)

\* the `or` of _is_valid_queen_move: when the rook's rule has returned False
\* the bishop's rule is called
OrBishopMove(frame) ==
    IF /\ frame.pc = "returned"
       /\ ~frame.ret
       /\ frame.kind = QUEEN
       /\ frame.rule = ROOK
    THEN EnterBishopMove(QUEEN, <<frame.from_row, frame.from_col>>,
                         <<frame.to_row, frame.to_col>>)
    ELSE frame

\* a call of the rule of a rook, a bishop or a queen (one in a behaviour)
CallSlidingRule(kind, from, to) ==
    /\ walk.pc = "idle"
    /\ walk' = IF kind = BISHOP
               THEN EnterBishopMove(kind, from, to)
               ELSE OrBishopMove(EnterRookMove(kind, from, to))
    /\ UNCHANGED <<board, current_turn, en_passant_target, move_history, last>>

\* one test of the loop condition of _is_path_clear, with the body or the
\* return that follows it
PathClearStep ==
    /\ walk.pc = "loop"
    /\ walk' =
         IF walk.current_row # walk.to_row \/ walk.current_col # walk.to_col
         THEN IF ~is_empty(Self, walk.current_row, walk.current_col)
              THEN OrBishopMove([walk EXCEPT !.pc = "returned", !.ret = FALSE])
              ELSE [walk EXCEPT !.current_row = @ + walk.row_step,
                                !.current_col = @ + walk.col_step,
                                !.steps = @ + 1]
         ELSE [walk EXCEPT !.pc = "returned", !.ret = TRUE]
    /\ UNCHANGED <<board, current_turn, en_passant_target, move_history, last>>

NextWalk ==
    \/ \E kind \in {ROOK, BISHOP, QUEEN}, from \in WalkFromInputs,
          to \in WalkToInputs : CallSlidingRule(kind, from, to)
    \/ PathClearStep

SpecWalk == Init /\ [][NextWalk]_vars

\* a call that has started goes on: the loop is not left waiting
SpecWalkLive == SpecWalk /\ WF_vars(PathClearStep)

(***************************************************************************)
(* What the properties speak of.                                           *)
(***************************************************************************)
Squares == (0..7) \X (0..7)

At(self, sq) == self.board[sq[1]][sq[2]]

KingSquares(self, color) ==
    {sq \in Squares : /\ At(self, sq).piece_type = KING
                      /\ At(self, sq).color = color}

\* some piece of the other color satisfies its movement rule from its
\* square to sq
Attacked(self, sq, color) ==
    \E from \in Squares :
        /\ At(self, from) # None
        /\ At(self, from).color # color
        /\ _is_valid_move_internal(self, from[1], from[2], sq[1], sq[2])

KingAttacked(self, color) ==
    \E king \in KingSquares(self, color) : Attacked(self, king, color)

NumPieces(self) == Cardinality({sq \in Squares : At(self, sq) # None})

\* the (from, to) pairs of the accepted moves, in order
Played == [k \in 1..Len(move_history) |->
              move_history[k].from \o move_history[k].to]

QueryOps ==
    {"is_valid_move", "is_in_check", "is_square_attacked", "is_checkmate",
     "is_stalemate", "get_all_valid_moves"}

HomeRow(color) == IF color = WHITE THEN 7 ELSE 0

\* a record of move_history says that a King of that color moved
KingHasMoved(color) ==
    \E k \in 1..Len(move_history) :
        move_history[k].piece = str(Piece(color, KING))

\* a record of move_history says that a Rook of that color left the corner
\* of that column, or was captured on it
RookHasLeft(color, corner) ==
    \E k \in 1..Len(move_history) :
        \/ /\ move_history[k].from = <<HomeRow(color), corner>>
           /\ move_history[k].piece = str(Piece(color, ROOK))
        \/ /\ move_history[k].to = <<HomeRow(color), corner>>
           /\ move_history[k].captured = str(Piece(color, ROOK))

\* the squares of the board and three places off it
ProbeSquares == Squares \union {<<-1, 0>>, <<7, 8>>, <<8, 8>>}

\* the symbols of the pieces of a color
SymbolsOf(color) == {str(Piece(color, piece_type)) : piece_type \in PieceType}

\* on one row, one column or one diagonal
OnLine(from, to) == from[1] = to[1] \/ from[2] = to[2]

OnDiagonal(from, to) == abs(to[1] - from[1]) = abs(to[2] - from[2])

\* the squares strictly between two squares of one row, column or diagonal
Between(from, to) ==
    {sq \in Squares :
        /\ sq # from
        /\ sq # to
        /\ (OnLine(from, sq) /\ OnLine(sq, to) /\ OnLine(from, to))
              \/ (OnDiagonal(from, sq) /\ OnDiagonal(sq, to)
                    /\ OnDiagonal(from, to))
        /\ abs(sq[1] - from[1]) + abs(to[1] - sq[1]) = abs(to[1] - from[1])
        /\ abs(sq[2] - from[2]) + abs(to[2] - sq[2]) = abs(to[2] - from[2])}

KnightShape(from, to) ==
    <<abs(to[1] - from[1]), abs(to[2] - from[2])>> \in {<<2, 1>>, <<1, 2>>}

\* the squares of a board that hold a piece of that color
PiecesOf(b, color) ==
    {sq \in Squares : b[sq[1]][sq[2]] # None /\ b[sq[1]][sq[2]].color = color}

\* the squares of a board that hold a piece of that color and kind
PiecesOfKind(b, color, piece_type) ==
    {sq \in PiecesOf(b, color) : b[sq[1]][sq[2]].piece_type = piece_type}


\* the squares of a board that hold a piece whose has_moved is False
Unmoved(b) ==
    {sq \in Squares : b[sq[1]][sq[2]] # None /\ ~b[sq[1]][sq[2]].has_moved}

\* a record of move_history has that square as its origin or destination
InHistory(sq) ==
    \E k \in 1..Len(move_history) :
        move_history[k].from = sq \/ move_history[k].to = sq

\* the squares a move of the piece on `from` to `to` may change: from and
\* to; the square behind `to`, on the mover's side, when a pawn goes
\* diagonally onto the en-passant target; the corner toward which a King
\* goes two columns and the square the King passes over
Frame(self, from, to) ==
    LET piece == get_piece(self, from[1], from[2])
    IN  {from, to}
          \union (IF /\ piece # None
                     /\ piece.piece_type = PAWN
                     /\ from[2] # to[2]
                     /\ to = self.en_passant_target
                  THEN {<<to[1] + (IF piece.color = WHITE THEN 1 ELSE -1),
                          to[2]>>}
                  ELSE {})
          \union (IF /\ piece # None
                     /\ piece.piece_type = KING
                     /\ abs(to[2] - from[2]) = 2
                  THEN {<<from[1], IF to[2] > from[2] THEN 7 ELSE 0>>,
                        <<from[1], (from[2] + to[2]) \div 2>>}
                  ELSE {})

\* the record of the latest accepted move
LastMove(history) == history[Len(history)]

\* a record of an en passant capture: a pawn changed column and the record
\* names no captured piece
IsEnPassantRecord(record) ==
    /\ record.piece \in {str(Piece(WHITE, PAWN)), str(Piece(BLACK, PAWN))}
    /\ record.from[2] # record.to[2]
    /\ record.captured = NoCapture

\* a record of a King's move of two columns
IsCastlingRecord(record) ==
    /\ record.piece \in {str(Piece(WHITE, KING)), str(Piece(BLACK, KING))}
    /\ abs(record.to[2] - record.from[2]) = 2

(***************************************************************************)
(* The claims.                                                             *)
(***************************************************************************)

\* C1: in every state reached through make_move, a move that is_valid_move
\* accepts does not leave the mover's own King attacked by a piece of the
\* other color.
C1_ValidMoveKeepsKingSafe ==
    \A m \in MoveInputs :
        is_valid_move(Self, m[1], m[2], m[3], m[4]).ret
            => ~KingAttacked(_make_move_internal(Self, m[1], m[2], m[3], m[4]),
                             current_turn)

\* C2: is_in_check(color) is true whenever a King of that color is on the
\* board and a piece of the other color could move onto its square (so with
\* a White King on (4,4), a Black Queen on (4,0) and nothing between them).
C2_CheckIsDetected ==
    \A color \in Color :
        KingAttacked(Self, color) => is_in_check(Self, color).ret

\* C3: after the accepted moves (6,5)->(5,5), (1,4)->(3,4), (6,6)->(4,6),
\* (0,3)->(4,7) from the initial position, is_checkmate(White) is true.
C3_FoolsMateIsCheckmate ==
    Played = <<<<6, 5, 5, 5>>, <<1, 4, 3, 4>>, <<6, 6, 4, 6>>, <<0, 3, 4, 7>>>>
        => is_checkmate(Self, WHITE).ret

\* C4: a call of is_valid_move or make_move with a coordinate outside 0..7
\* returns false and leaves board, turn, en-passant target and history as
\* they were.
C4_OutOfRangeIsRejected ==
    [][(last'.op \in {"is_valid_move", "make_move"} /\ ~last'.in_range)
          => (~last'.ret /\ UNCHANGED state)]_vars

\* C5: a make_move that returns false leaves the squares, the turn, the
\* en-passant target and the history as they were.
C5_AtomicRejection ==
    [][(last'.op = "make_move" /\ ~last'.ret) => UNCHANGED state]_vars

\* a make_move was rejected in the course of a game
C5_Witness ==
    /\ last.op = "make_move"
    /\ ~last.ret
    /\ Len(move_history) >= 2

\* C6: a call of is_valid_move, is_in_check, is_square_attacked,
\* is_checkmate, is_stalemate or get_all_valid_moves leaves the squares, the
\* turn, the en-passant target and the history as they were, whatever it
\* returns.
C6_QueriesDoNotMutate ==
    [][last'.op \in QueryOps => UNCHANGED state]_vars

\* is_valid_move accepted a move (its trial on the copy was made) in a
\* position of the game
C6_Witness ==
    /\ last.op = "is_valid_move"
    /\ last.ret
    /\ Len(move_history) >= 1

\* C7: a make_move that returns true flips current_turn, appends one record
\* with the given from and to to move_history and keeps the earlier records;
\* so current_turn is White iff the length of move_history is even.
C7_TurnAlternation ==
    /\ [](current_turn = WHITE <=> Len(move_history) % 2 = 0)
    /\ [][\A m \in MoveInputs :
            (last'.op = "make_move" /\ last'.ret /\ MakeMove(m))
                => /\ current_turn' = Opponent(current_turn)
                   /\ Len(move_history') = Len(move_history) + 1
                   /\ SubSeq(move_history', 1, Len(move_history)) = move_history
                   /\ move_history'[Len(move_history')].from = <<m[1], m[2]>>
                   /\ move_history'[Len(move_history')].to = <<m[3], m[4]>>]_vars

\* both colors have made an accepted move
C7_Witness ==
    /\ last.op = "make_move"
    /\ last.ret
    /\ Len(move_history) >= 2

\* C8: in every state reached through make_move the board holds exactly one
\* White King and exactly one Black King.
C8_OneKingEach ==
    \A color \in Color : Cardinality(KingSquares(Self, color)) = 1

\* C9: a pawn move of two rows is accepted only from the starting rank of
\* its color, straight forward, with the square passed over and the
\* destination both empty.
C9_DoubleStepPathClear ==
    \A m \in MoveInputs :
        LET piece == get_piece(Self, m[1], m[2])
            direction == IF piece.color = WHITE THEN -1 ELSE 1
        IN  (/\ InRange(m)
             /\ piece.piece_type = PAWN
             /\ abs(m[3] - m[1]) = 2
             /\ is_valid_move(Self, m[1], m[2], m[3], m[4]).ret)
                => /\ m[1] = (IF piece.color = WHITE THEN 6 ELSE 1)
                   /\ m[4] = m[2]
                   /\ m[3] = m[1] + 2 * direction
                   /\ At(Self, <<m[1] + direction, m[2]>>) = None
                   /\ At(Self, <<m[3], m[4]>>) = None

\* C10: right after a pawn's double step to (r, c), the diagonal move of an
\* enemy pawn on (r, c-1) or (r, c+1) onto the en-passant target is accepted
\* unless it exposes its own King, and executing it puts that pawn on the
\* target, empties its origin and removes the pawn on (r, c) and nothing else.
C10_EnPassantCapture ==
    en_passant_target # NoTarget =>
        LET direction == IF current_turn = WHITE THEN -1 ELSE 1
            r == en_passant_target[1] - direction
            c == en_passant_target[2]
        IN  \A from_col \in {c - 1, c + 1} \cap (0..7) :
                LET capturer == At(Self, <<r, from_col>>)
                    valid == is_valid_move(Self, r, from_col,
                                           en_passant_target[1], c).ret
                    after == _make_move_internal(Self, r, from_col,
                                                 en_passant_target[1], c)
                IN  (capturer.piece_type = PAWN /\ capturer.color = current_turn)
                        => /\ valid \/ KingAttacked(after, current_turn)
                           /\ At(after, en_passant_target)
                                  = [capturer EXCEPT !.has_moved = TRUE]
                           /\ At(after, <<r, from_col>>) = None
                           /\ At(after, <<r, c>>) = None
                           /\ NumPieces(after) = NumPieces(Self) - 1
                           /\ \A sq \in Squares \ {en_passant_target,
                                                   <<r, from_col>>, <<r, c>>} :
                                  At(after, sq) = At(Self, sq)

\* C11: in every state reached through make_move, en_passant_target is set
\* iff the latest accepted move was a pawn's move of two rows, and then it is
\* the square the pawn passed over (its column, the row midway); after every
\* other accepted move, an en passant capture included, it is none.
C11_EnPassantTargetLifetime ==
    LET n == Len(move_history)
        latest == move_history[n]
        double_step ==
            /\ n > 0
            /\ latest.piece \in {str(Piece(WHITE, PAWN)), str(Piece(BLACK, PAWN))}
            /\ abs(latest.to[1] - latest.from[1]) = 2
    IN  /\ en_passant_target # NoTarget <=> double_step
        /\ double_step =>
              /\ latest.to[2] = latest.from[2]
              /\ en_passant_target[2] = latest.to[2]
              /\ 2 * en_passant_target[1] = latest.from[1] + latest.to[1]

\* a pawn has just captured en passant: it moved onto the square that was
\* the target, and the target is none again
C11_Witness ==
    /\ Len(move_history) >= 2
    /\ en_passant_target = NoTarget
    /\ LET n == Len(move_history)
       IN  /\ move_history[n].piece = str(Piece(BLACK, PAWN))
           /\ move_history[n].from[2] # move_history[n].to[2]
           /\ move_history[n].captured = NoCapture
           /\ move_history[n - 1].piece = str(Piece(WHITE, PAWN))
           /\ abs(move_history[n - 1].to[1] - move_history[n - 1].from[1]) = 2

\* C13: on every board, boards built with set_piece included, the movement
\* rule accepts a King's move of two columns along its row only if the King
\* has not moved and is on its home row, the corner on that side holds a
\* Rook of the King's color that has not moved, and every square strictly
\* between the King and that Rook is empty.
C13_CastlingRule ==
    \A from \in Squares, to_col \in 0..7 :
        LET king == At(Self, from)
            corner == IF to_col > from[2] THEN 7 ELSE 0
            rook == At(Self, <<from[1], corner>>)
            between == {c \in 0..7 : \/ from[2] < c /\ c < corner
                                     \/ corner < c /\ c < from[2]}
        IN  (/\ king.piece_type = KING
             /\ abs(to_col - from[2]) = 2
             /\ _is_valid_move_internal(Self, from[1], from[2], from[1], to_col))
                => /\ ~king.has_moved
                   /\ from[1] = (IF king.color = WHITE THEN 7 ELSE 0)
                   /\ rook.piece_type = ROOK
                   /\ rook.color = king.color
                   /\ ~rook.has_moved
                   /\ \A c \in between : At(Self, <<from[1], c>>) = None

\* C12: once a King has made an accepted move, no move of two columns of a
\* King of that color satisfies the movement rule again (so none is accepted
\* by is_valid_move or make_move), and once the Rook of a corner has made an
\* accepted move or has been captured there, none toward that corner does:
\* in every later state, also with the pieces back on their home squares.
C12_CastlingRightsLost ==
    \A color \in Color, corner \in {0, 7} :
        (KingHasMoved(color) \/ RookHasLeft(color, corner))
            => \A from \in KingSquares(Self, color), to_row \in 0..7 :
                   ~_is_valid_move_internal(
                        Self, from[1], from[2], to_row,
                        IF corner = 7 THEN from[2] + 2 ELSE from[2] - 2)

\* the White King has moved and is back on (7, 4), with the squares up to
\* the unmoved Rook of (7, 7) empty
C12_Witness ==
    /\ KingHasMoved(WHITE)
    /\ At(Self, <<7, 4>>).piece_type = KING
    /\ At(Self, <<7, 4>>).color = WHITE
    /\ At(Self, <<7, 5>>) = None
    /\ At(Self, <<7, 6>>) = None
    /\ At(Self, <<7, 7>>) = Piece(WHITE, ROOK)

\* C14: after an accepted King move of two columns (which _make_move_internal
\* executes as castling) the King stands on its destination, the Rook stands
\* next to it on the square between the King's origin and destination, and
\* the King's origin and the Rook's corner are empty.
C14_CastlingPlacesRook ==
    LET n == Len(move_history)
        latest == move_history[n]
        color == IF latest.piece = str(Piece(WHITE, KING)) THEN WHITE ELSE BLACK
        corner == IF latest.to[2] > latest.from[2] THEN 7 ELSE 0
        passed == <<latest.to[1], (latest.from[2] + latest.to[2]) \div 2>>
    IN  (/\ n > 0
         /\ latest.piece \in {str(Piece(WHITE, KING)), str(Piece(BLACK, KING))}
         /\ abs(latest.to[2] - latest.from[2]) = 2)
            => /\ At(Self, latest.to).piece_type = KING
               /\ At(Self, latest.to).color = color
               /\ At(Self, passed).piece_type = ROOK
               /\ At(Self, passed).color = color
               /\ At(Self, latest.from) = None
               /\ At(Self, <<latest.from[1], corner>>) = None

\* C15: in every state and for each color, on turn or not, is_checkmate is
\* true iff is_in_check is true and get_all_valid_moves is empty, and
\* is_stalemate is true iff is_in_check is false and get_all_valid_moves is
\* empty; the two are never both true.
C15_TerminalMatchesEnumeration ==
    \A color \in Color :
        LET check == is_in_check(Self, color).ret
            moves == get_all_valid_moves(Self, color).ret
            checkmate == is_checkmate(Self, color).ret
            stalemate == is_stalemate(Self, color).ret
        IN  /\ checkmate <=> (check /\ moves = <<>>)
            /\ stalemate <=> (~check /\ moves = <<>>)
            /\ ~(checkmate /\ stalemate)

\* is_stalemate answered true in a position of the game (for the color not
\* on turn, which has no valid move)
C15_Witness ==
    /\ last.op = "is_stalemate"
    /\ last.ret
    /\ Len(move_history) >= 1
    /\ get_all_valid_moves(Self, Opponent(current_turn)).ret = <<>>
    /\ get_all_valid_moves(Self, current_turn).ret # <<>>

\* C16: get_all_valid_moves(color) holds exactly the (from, to) over the
\* squares of the board with a piece of that color on from and is_valid_move
\* true in the same state, each once, ordered by origin (row, then column)
\* and for one origin by destination (row, then column).
C16_EnumerationExactAndOrdered ==
    \A color \in Color :
        LET moves == get_all_valid_moves(Self, color).ret
            origins == {from \in Squares : /\ At(Self, from) # None
                                           /\ At(Self, from).color = color}
            valid == {p \in origins \X Squares :
                         is_valid_move(Self, p[1][1], p[1][2],
                                       p[2][1], p[2][2]).ret}
            position(m) == (m[1] * 8 + m[2]) * 64 + m[3] * 8 + m[4]
        IN  /\ {moves[i] : i \in 1..Len(moves)}
                   = {<<p[1][1], p[1][2], p[2][1], p[2][2]>> : p \in valid}
            /\ \A i \in 1..(Len(moves) - 1) :
                   position(moves[i]) < position(moves[i + 1])

\* get_all_valid_moves returned the moves of several pieces in a position
\* of the game
C16_Witness ==
    /\ last.op = "get_all_valid_moves"
    /\ Len(move_history) >= 1
    /\ Len(last.moves) >= 2
    /\ last.moves[1][1] # last.moves[Len(last.moves)][1]

\* C17: in every state is_valid_move and make_move return false for a from
\* that holds no piece or a piece of the color not on turn, for from = to,
\* and for a to that holds a piece of the mover's color; so every accepted
\* move was made by the side on turn and captured no piece of its own color.
C17_BasicRejections ==
    /\ \A from \in ProbeSquares, to \in ProbeSquares :
           LET piece == get_piece(Self, from[1], from[2])
               target == get_piece(Self, to[1], to[2])
           IN  (\/ piece = None
                \/ piece.color # current_turn
                \/ from = to
                \/ target # None /\ target.color = piece.color)
                   => /\ ~is_valid_move(Self, from[1], from[2],
                                        to[1], to[2]).ret
                      /\ ~make_move(Self, from[1], from[2], to[1], to[2]).ret
    /\ \A k \in 1..Len(move_history) :
           LET mover == IF k % 2 = 1 THEN WHITE ELSE BLACK
           IN  /\ move_history[k].piece \in SymbolsOf(mover)
               /\ move_history[k].captured \notin SymbolsOf(mover)

\* a call was rejected after both sides have captured
C17_Witness ==
    /\ last.op \in {"is_valid_move", "make_move"}
    /\ ~last.ret
    /\ \E k \in 1..Len(move_history) :
           move_history[k].captured \in SymbolsOf(BLACK)
    /\ \E k \in 1..Len(move_history) :
           move_history[k].captured \in SymbolsOf(WHITE)

\* C18: between squares of the board, the rule of a rook, bishop or queen
\* accepts a move only along a row or column (rook, queen) or a diagonal
\* (bishop, queen) with every square strictly between empty; the rule of a
\* knight accepts exactly the moves of shape (2,1) or (1,2), whatever stands
\* in between, and the knight's move is then accepted unless the destination
\* holds a piece of its color.
C18_SlidersNeedClearPath ==
    \A from \in Squares, to \in Squares :
        LET piece == At(Self, from)
            accepted == _is_valid_move_internal(Self, from[1], from[2],
                                                to[1], to[2])
            clear == \A sq \in Between(from, to) : At(Self, sq) = None
        IN  /\ (piece.piece_type = ROOK /\ accepted)
                   => OnLine(from, to) /\ clear
            /\ (piece.piece_type = BISHOP /\ accepted)
                   => OnDiagonal(from, to) /\ clear
            /\ (piece.piece_type = QUEEN /\ accepted)
                   => (OnLine(from, to) \/ OnDiagonal(from, to)) /\ clear
            /\ piece.piece_type = KNIGHT
                   => /\ _is_valid_knight_move(Self, from[1], from[2],
                                               to[1], to[2])
                          <=> KnightShape(from, to)
                      /\ accepted
                          <=> (KnightShape(from, to)
                                 /\ At(Self, to).color # piece.color)

\* a queen in the open: the rule accepts a move of hers over an empty
\* square and rejects one along a line because a square between is occupied,
\* while a knight's move over occupied squares is accepted
C18_Witness ==
    /\ \E from \in Squares, to \in Squares :
           /\ At(Self, from).piece_type = QUEEN
           /\ Between(from, to) # {}
           /\ _is_valid_move_internal(Self, from[1], from[2], to[1], to[2])
    /\ \E from \in Squares, to \in Squares :
           /\ At(Self, from).piece_type = QUEEN
           /\ At(Self, to).color # At(Self, from).color
           /\ OnLine(from, to) \/ OnDiagonal(from, to)
           /\ \E sq \in Between(from, to) : At(Self, sq) # None
           /\ \E sq \in Between(from, to) : At(Self, sq) = None
           /\ ~_is_valid_move_internal(Self, from[1], from[2], to[1], to[2])
    /\ \E from \in Squares, to \in Squares :
           /\ At(Self, from).piece_type = KNIGHT
           /\ At(Self, <<(from[1] + to[1]) \div 2, from[2]>>) # None
           /\ _is_valid_move_internal(Self, from[1], from[2], to[1], to[2])

\* C19: every pawn move the movement rule accepts goes to a smaller row for
\* White and to a larger row for Black; within the pawn's column it goes onto
\* an empty square, and otherwise it goes one row forward to an adjacent
\* column, onto a piece of the other color or onto the en-passant target.
C19_PawnMovesForward ==
    \A from \in Squares, to \in ProbeSquares :
        LET piece == At(Self, from)
            direction == IF piece.color = WHITE THEN -1 ELSE 1
        IN  (/\ piece.piece_type = PAWN
             /\ _is_valid_move_internal(Self, from[1], from[2], to[1], to[2]))
                => /\ (to[1] - from[1]) * direction > 0
                   /\ to \in Squares
                   /\ to[2] = from[2] => At(Self, to) = None
                   /\ to[2] # from[2] =>
                          /\ abs(to[2] - from[2]) = 1
                          /\ to[1] = from[1] + direction
                          /\ \/ /\ At(Self, to) # None
                                /\ At(Self, to).color # piece.color
                             \/ to = en_passant_target

\* a pawn stands next to a pawn that has just made its double step, and
\* the rule accepts its move onto the empty en-passant target
C19_Witness ==
    /\ en_passant_target # NoTarget
    /\ At(Self, en_passant_target) = None
    /\ \E from \in Squares :
           /\ At(Self, from).piece_type = PAWN
           /\ At(Self, from).color = current_turn
           /\ from[2] # en_passant_target[2]
           /\ is_valid_move(Self, from[1], from[2], en_passant_target[1],
                            en_passant_target[2]).ret

\* C20: the loop of _is_path_clear, the only loop of the methods that is not
\* a loop over range(8), ends for coordinates on and off the board: it is
\* entered only for squares of one row, column or diagonal, it is run at
\* most 8 times, and every call of a sliding piece's rule returns.
C20_PathWalkTerminates ==
    /\ [](walk.pc = "loop" =>
             /\ \/ walk.from_row = walk.to_row
                \/ walk.from_col = walk.to_col
                \/ abs(walk.to_row - walk.from_row)
                       = abs(walk.to_col - walk.from_col)
             /\ walk.steps <= 8)
    /\ (walk.pc = "loop") ~> (walk.pc = "returned")

\* the walk on an empty row ended off the board, at a destination farther
\* out, after it had passed over the whole row
C20_Witness ==
    /\ walk.pc = "returned"
    /\ ~walk.ret
    /\ walk.steps = 8
    /\ ~is_valid_position(walk.current_row, walk.current_col)
    /\ walk.to_col > walk.current_col

\* C21: an accepted make_move removes at most one piece from the board, a
\* piece of the other color; the mover has as many pieces after it as
\* before, and no color has more pieces of any kind after it than before (no
\* piece changes its kind or color, a pawn on the last rank stays a pawn).
C21_MaterialConservation ==
    [][(last'.op = "make_move" /\ last'.ret) =>
          /\ Cardinality(PiecesOf(board', current_turn))
                = Cardinality(PiecesOf(board, current_turn))
          /\ Cardinality(PiecesOf(board', Opponent(current_turn)))
                \in {Cardinality(PiecesOf(board, Opponent(current_turn))) - 1,
                     Cardinality(PiecesOf(board, Opponent(current_turn)))}
          /\ \A color \in Color, piece_type \in PieceType :
                Cardinality(PiecesOfKind(board', color, piece_type))
                   <= Cardinality(PiecesOfKind(board, color, piece_type))]_vars

\* C22: in every state of a game played with make_move, a piece whose
\* has_moved is false is the piece the initial position has on that square,
\* and no accepted move went from or to that square; a step of the game
\* never shows an unmoved piece on a square that did not hold one before (an
\* unmoved piece is never relocated, a rook relocated by castling included,
\* and a flag that is true never becomes false).
C22_UnmovedStandsOnInitialSquare ==
    /\ [](\A sq \in Unmoved(board) :
             /\ board[sq[1]][sq[2]] = _setup_initial_position[sq[1]][sq[2]]
             /\ ~InHistory(sq))
    /\ [][Unmoved(board') \subseteq Unmoved(board)]_vars

\* C23: in every state, for the color that is not to move: is_valid_move is
\* false from each of its pieces to every square, on the board or off it;
\* get_all_valid_moves is the empty sequence; is_stalemate is true whenever
\* is_in_check is false; and in the initial position is_stalemate(Black) is
\* true.
C23_OffTurnHasNoMoves ==
    LET color == Opponent(current_turn)
    IN  /\ \A from \in PiecesOf(board, color), to \in ProbeSquares :
               ~is_valid_move(Self, from[1], from[2], to[1], to[2]).ret
        /\ get_all_valid_moves(Self, color).ret = <<>>
        /\ ~is_in_check(Self, color).ret => is_stalemate(Self, color).ret
        /\ move_history = <<>> => is_stalemate(Self, BLACK).ret

\* get_all_valid_moves returned no move for the color not on turn in a
\* position of the game where that color has a piece whose movement rule
\* accepts a move and the color on turn has valid moves
C23_Witness ==
    /\ last.op = "get_all_valid_moves"
    /\ last.moves = <<>>
    /\ Len(move_history) >= 2
    /\ get_all_valid_moves(Self, current_turn).ret # <<>>
    /\ \E from \in PiecesOf(board, Opponent(current_turn)), to \in Squares :
           _is_valid_move_internal(Self, from[1], from[2], to[1], to[2])

\* C24: a make_move(from, to) that returns true leaves every square as it
\* was (the piece and its has_moved flag) except from and to, the captured
\* pawn's square of an en passant capture, and the rook's corner and new
\* square of a castling move; a rook relocated by castling arrives as it
\* stood on its corner, its flag included (no piece but the moved one has
\* its flag changed).
C24_FrameOfAcceptedMove ==
    [][(last'.op = "make_move" /\ last'.ret) =>
          LET from == LastMove(move_history').from
              to == LastMove(move_history').to
          IN  /\ \A sq \in Squares \ Frame(Self, from, to) :
                     board'[sq[1]][sq[2]] = board[sq[1]][sq[2]]
              /\ IsCastlingRecord(LastMove(move_history')) =>
                     board'[from[1]][(from[2] + to[2]) \div 2]
                        = board[from[1]][IF to[2] > from[2] THEN 7 ELSE 0]]_vars

\* White castled with the Rook of (7, 7) in a game in which a pawn had been
\* taken en passant
C24_Witness ==
    /\ last.op = "make_move"
    /\ last.ret
    /\ Len(move_history) >= 2
    /\ IsCastlingRecord(LastMove(move_history))
    /\ board[7][5] # None
    /\ board[7][5].piece_type = ROOK
    /\ board[7][7] = None
    /\ \E k \in 1..Len(move_history) : IsEnPassantRecord(move_history[k])

====
